---- MODULE Spec2Model ----
(***************************************************************************)
(* Model of the two adb file managers of the repository:                   *)
(*   src/Adb.py   TransferWorker (a QThread) and AdbFileExplorer           *)
(*   src/main.py  ADBWindowsGUI                                            *)
(* Text (subprocess output, paths) is a sequence of one-character strings, *)
(* so that parsing and path construction are computed as the code does.    *)
(***************************************************************************)
EXTENDS Integers, Sequences, FiniteSets, TLC

VARIABLES
    workers,          \* Adb.py: the TransferWorker objects created so far (by index)
    queue,            \* Adb.py: signals emitted by workers, not yet handled by the GUI thread
    transfer_worker,  \* Adb.py: AdbFileExplorer.transfer_worker (0 = None, else index)
    push_button,      \* Adb.py: push_button.isEnabled()
    pull_button,      \* Adb.py: pull_button.isEnabled()
    progress_bar,     \* Adb.py: progress_bar.value()
    progress_label,   \* Adb.py: progress_label.text()
    ui,               \* Adb.py: where the GUI thread is inside push_files / pull_files
    device_id,        \* Adb.py: AdbFileExplorer.device_id (empty = None)
    current_path,     \* Adb.py: AdbFileExplorer.current_path
    file_list,        \* Adb.py: the items of file_list, each [name, is_dir]
    tree_widget,      \* Adb.py: the paths of the tree items
    last_op,          \* Adb.py: the last handler run, what it was given and what it ran
    adb_exists,       \* Adb.py: os.path.exists(adb_path)
    status_label,     \* Adb.py: status_label.text()
    g_current_path,   \* main.py: ADBWindowsGUI.current_path
    g_current_device, \* main.py: ADBWindowsGUI.current_device (empty = None)
    g_device_combo,   \* main.py: the items of device_combo
    g_tree,           \* main.py: the names shown in the tree
    g_progress,       \* main.py: the progress bar, [min, max, value]
    g_threads,        \* main.py: the threading.Thread objects running _transfer
    g_dialog,         \* main.py: the last message box shown
    g_path_label,     \* main.py: path_label.text()
    g_alive,          \* main.py: the process has not been aborted
    g_last_op         \* main.py: the last handler run, what it was given and what it ran

vars == << workers, queue, transfer_worker, push_button, pull_button, progress_bar,
           progress_label, ui, device_id, current_path, file_list, tree_widget, last_op,
           adb_exists, status_label,
           g_current_path, g_current_device, g_device_combo, g_tree, g_progress, g_threads,
           g_dialog, g_path_label, g_alive, g_last_op >>

explorerVars == << transfer_worker, push_button, pull_button, progress_bar,
                   progress_label, ui, device_id, current_path, file_list, tree_widget,
                   last_op, adb_exists, status_label >>

guiVars == << g_current_path, g_current_device, g_device_combo, g_tree, g_progress,
              g_threads, g_dialog, g_path_label, g_alive, g_last_op >>

----------------------------------------------------------------------------
(* Bounds of the model *)

\* the number of output lines one transfer subprocess prints
MaxLines == 2

----------------------------------------------------------------------------
(* Text *)

Digits == << "0", "1", "2", "3", "4", "5", "6", "7", "8", "9" >>

IsDigit(c) == \E i \in 1..10 : Digits[i] = c

DigitVal(c) == (CHOOSE i \in 1..10 : Digits[i] = c) - 1

\* str.isspace for the characters of the alphabet
IsSpace(c) == c \in {" ", "\n", "\t", "\r"}

RECURSIVE LStrip(_)
LStrip(s) == IF s # << >> /\ IsSpace(Head(s)) THEN LStrip(Tail(s)) ELSE s

RECURSIVE RStrip(_)
RStrip(s) ==
    IF s # << >> /\ IsSpace(s[Len(s)]) THEN RStrip(SubSeq(s, 1, Len(s) - 1)) ELSE s

\* str.strip()
Strip(s) == RStrip(LStrip(s))

RECURSIVE DecimalValue(_)
DecimalValue(s) ==
    IF s = << >> THEN 0
    ELSE 10 * DecimalValue(SubSeq(s, 1, Len(s) - 1)) + DigitVal(s[Len(s)])

AllDigits(s) == s # << >> /\ \A i \in 1..Len(s) : IsDigit(s[i])

\* the strings int() accepts: an optional sign and decimal digits, blanks around
IntAccepts(s) ==
    LET t == Strip(s)
    IN  IF t # << >> /\ t[1] \in {"+", "-"} THEN AllDigits(Tail(t)) ELSE AllDigits(t)

\* int(s) for a string int() accepts
IntOf(s) ==
    LET t == Strip(s)
    IN  IF t[1] = "-" THEN 0 - DecimalValue(Tail(t))
        ELSE IF t[1] = "+" THEN DecimalValue(Tail(t))
        ELSE DecimalValue(t)

\* device_id / current_device when no device is selected (None)
NoDevice == << >>

----------------------------------------------------------------------------
(* TransferWorker, src/Adb.py *)

\* the digits of the largest value a pyqtSignal(int, ...) argument converts to
\* (a C int, 2^31 - 1)
IntMaxDigits == << "2", "1", "4", "7", "4", "8", "3", "6", "4", "7" >>

RECURSIVE StripZeros(_)
StripZeros(d) == IF Len(d) > 1 /\ Head(d) = "0" THEN StripZeros(Tail(d)) ELSE d

\* a < b for two digit strings of the same length
RECURSIVE DigitsLess(_, _)
DigitsLess(a, b) ==
    IF a = << >> THEN FALSE
    ELSE IF Head(a) # Head(b) THEN DigitVal(Head(a)) < DigitVal(Head(b))
    ELSE DigitsLess(Tail(a), Tail(b))

\* the number written by the digits d does not fit a C int: emit raises OverflowError
ExceedsInt(d) ==
    LET z == StripZeros(d)
    IN  \/ Len(z) > Len(IntMaxDigits)
        \/ Len(z) = Len(IntMaxDigits) /\ DigitsLess(IntMaxDigits, z)

\* process exit codes the subprocesses may return
ExitCodes == {0, 1}

\* results of os.path.getsize(src): a size, or -1 when it raises OSError
LocalSizes == {-1, 1000000}

\* what 'adb shell stat -c%s' may print on stdout
StatOutputs ==
    { << "4", "2", "\n" >>,
      << >>,
      << "\n" >>,
      << "4", "x", "\n" >>,
      << "s", "t", "a", "t", ":", " ", "4", "\n" >> }

\* lines 'adb push/pull -p' may print, as readline returns them
OutputLines ==
    { << "e", "r", "r", "\n" >>,
      << "[", " ", "5", "0", "%", "]", "\n" >>,
      << "1", " ", "2", "0", "%", " ", "9", "%", "\n" >>,
      << "1", "5", "0", "%", " ", "x", "\n" >>,
      << "2", "1", "4", "7", "4", "8", "3", "6", "4", "8", "%", "\n" >> }

\* the last index of the run of digits that starts at i
RECURSIVE RunEnd(_, _)
RunEnd(line, i) ==
    IF i < Len(line) /\ IsDigit(line[i + 1]) THEN RunEnd(line, i + 1) ELSE i

\* (\d+)% matches at i: greedy digits from i, then '%'
MatchesAt(line, i) ==
    /\ IsDigit(line[i])
    /\ RunEnd(line, i) < Len(line)
    /\ line[RunEnd(line, i) + 1] = "%"

\* re.search(r'(\d+)%', line).group(1): the digits of the leftmost match, or the
\* empty string when there is no match
SearchPercent(line) ==
    IF \E i \in 1..Len(line) : MatchesAt(line, i)
    THEN LET i == CHOOSE k \in 1..Len(line) :
                    /\ MatchesAt(line, k)
                    /\ \A j \in 1..(k - 1) : ~MatchesAt(line, j)
         IN  SubSeq(line, i, RunEnd(line, i))
    ELSE << >>

\* the local 'result' of run() while it holds no result of 'stat'
NoResult == [rc |-> -1, out |-> << >>]

\* TransferWorker.__init__, with the locals of run(): result (of 'stat', between
\* lines 33 and 38), started (Popen has returned), returncode (of process.wait,
\* -1 before) and nread (the lines the loop has read, 0 outside the loop), and with
\* the '-s' argument of the two commands run() has started: stat_device (line 32) and
\* transfer_device (line 41), NoDevice while the command has not been started
NewWorker(dev, operation) ==
    [ pc |-> "created", device_id |-> dev, operation |-> operation, total_size |-> 0,
      result |-> NoResult, started |-> FALSE, returncode |-> -1, nread |-> 0,
      stat_device |-> NoDevice, transfer_device |-> NoDevice ]

\* the device of a command taken from the session instead of the worker
CommandDevice_OfSession(w) == device_id

\* lines 32 and 41: the '-s' argument of the commands of run() is self.device_id of
\* the worker
CommandDevice(w) == workers[w].device_id

\* self.progress.emit(percent, status): queued to the GUI thread
EmitProgress(w, percent, total) ==
    Append(queue, [ w |-> w, sig |-> "progress", percent |-> percent, success |-> FALSE,
                    text |-> [kind |-> "status", a |-> percent, b |-> total] ])

\* self.finished.emit(success, message): queued to the GUI thread
EmitFinished(w, success, kind, code) ==
    Append(queue, [ w |-> w, sig |-> "finished", percent |-> 0, success |-> success,
                    text |-> [kind |-> kind, a |-> code, b |-> 0] ])

\* run(), lines 29-33: os.path.getsize for a push (size = -1 stands for OSError),
\* the 'stat' subprocess for a pull (subprocess.run raises when device_id is None)
RunSize(w) ==
    /\ ui.pc # "aborted"
    /\ workers[w].pc = "size"
    /\ \/ /\ workers[w].operation = "push"
          /\ \E size \in LocalSizes :
                IF size >= 0
                THEN /\ workers' = [workers EXCEPT ![w].total_size = size, ![w].pc = "popen"]
                     /\ UNCHANGED queue
                ELSE /\ workers' = [workers EXCEPT ![w].pc = "done"]
                     /\ queue' = EmitFinished(w, FALSE, "OSError", 0)
       \/ /\ workers[w].operation = "pull"
          /\ \E rc \in ExitCodes, out \in StatOutputs :
                IF CommandDevice(w) = NoDevice
                THEN /\ workers' = [workers EXCEPT ![w].pc = "done"]
                     /\ queue' = EmitFinished(w, FALSE, "TypeError", 0)
                ELSE /\ workers' = [workers EXCEPT ![w].pc = "stat",
                                                   ![w].result = [rc |-> rc, out |-> out],
                                                   ![w].stat_device = CommandDevice(w)]
                     /\ UNCHANGED queue
    /\ UNCHANGED << explorerVars, guiVars >>

\* RunStatResult without the return of line 38
RunStatResult_NoReturn(w) ==
    /\ ui.pc # "aborted"
    /\ workers[w].pc = "stat"
    /\ LET result == workers[w].result
       IN  IF result.rc = 0
           THEN IF IntAccepts(result.out)
                THEN /\ workers' = [workers EXCEPT ![w].total_size = IntOf(result.out),
                                                   ![w].result = NoResult,
                                                   ![w].pc = "popen"]
                     /\ UNCHANGED queue
                ELSE /\ workers' = [workers EXCEPT ![w].result = NoResult, ![w].pc = "done"]
                     /\ queue' = EmitFinished(w, FALSE, "ValueError", 0)
           ELSE /\ workers' = [workers EXCEPT ![w].result = NoResult, ![w].pc = "popen"]
                /\ queue' = EmitFinished(w, FALSE, "Failed to get file size", 0)
    /\ UNCHANGED << explorerVars, guiVars >>

\* RunStatResult taking 0 for a size that does not parse
RunStatResult_DefaultSize(w) ==
    /\ ui.pc # "aborted"
    /\ workers[w].pc = "stat"
    /\ LET result == workers[w].result
       IN  IF result.rc = 0
           THEN /\ workers' = [workers EXCEPT
                                 ![w].total_size = IF IntAccepts(result.out)
                                                   THEN IntOf(result.out) ELSE 0,
                                 ![w].result = NoResult,
                                 ![w].pc = "popen"]
                /\ UNCHANGED queue
           ELSE /\ workers' = [workers EXCEPT ![w].result = NoResult, ![w].pc = "done"]
                /\ queue' = EmitFinished(w, FALSE, "Failed to get file size", 0)
    /\ UNCHANGED << explorerVars, guiVars >>

\* run(), lines 34-38: the size from the result of 'stat'; int() raises ValueError
RunStatResult(w) ==
    /\ ui.pc # "aborted"
    /\ workers[w].pc = "stat"
    /\ LET result == workers[w].result
       IN  IF result.rc = 0
           THEN IF IntAccepts(result.out)
                THEN /\ workers' = [workers EXCEPT ![w].total_size = IntOf(result.out),
                                                   ![w].result = NoResult,
                                                   ![w].pc = "popen"]
                     /\ UNCHANGED queue
                ELSE /\ workers' = [workers EXCEPT ![w].result = NoResult, ![w].pc = "done"]
                     /\ queue' = EmitFinished(w, FALSE, "ValueError", 0)
           ELSE /\ workers' = [workers EXCEPT ![w].result = NoResult, ![w].pc = "done"]
                /\ queue' = EmitFinished(w, FALSE, "Failed to get file size", 0)
    /\ UNCHANGED << explorerVars, guiVars >>

\* run(), lines 41-44: start 'adb push|pull -p'; Popen raises when adb cannot be run
\* or when device_id is None
RunPopen(w) ==
    /\ ui.pc # "aborted"
    /\ workers[w].pc = "popen"
    /\ \E ok \in BOOLEAN :
          IF ok /\ CommandDevice(w) # NoDevice
          THEN /\ workers' = [workers EXCEPT ![w].started = TRUE, ![w].pc = "read",
                                             ![w].transfer_device = CommandDevice(w)]
               /\ UNCHANGED queue
          ELSE /\ workers' = [workers EXCEPT ![w].pc = "done"]
               /\ queue' = EmitFinished(w, FALSE, "OSError", 0)
    /\ UNCHANGED << explorerVars, guiVars >>

\* RunReadLine catching the exception inside the loop and reading on
RunReadLine_KeepReading(w) ==
    /\ ui.pc # "aborted"
    /\ workers[w].pc = "read"
    /\ workers[w].nread < MaxLines
    /\ \E raw \in OutputLines :
          LET line == Strip(raw)
              group == SearchPercent(line)
          IN  IF group = << >>
              THEN /\ workers' = [workers EXCEPT ![w].nread = @ + 1]
                   /\ UNCHANGED queue
              ELSE IF ~ExceedsInt(group)
              THEN /\ workers' = [workers EXCEPT ![w].nread = @ + 1]
                   /\ queue' = EmitProgress(w, DecimalValue(group), workers[w].total_size)
              ELSE /\ workers' = [workers EXCEPT ![w].nread = @ + 1]
                   /\ queue' = EmitFinished(w, FALSE, "OverflowError", 0)
    /\ UNCHANGED << explorerVars, guiVars >>

\* run(), lines 45-60: one line of output
RunReadLine(w) ==
    /\ ui.pc # "aborted"
    /\ workers[w].pc = "read"
    /\ workers[w].nread < MaxLines
    /\ \E raw \in OutputLines :
          LET line == Strip(raw)
              group == SearchPercent(line)
          IN  IF group = << >>
              THEN /\ workers' = [workers EXCEPT ![w].nread = @ + 1]
                   /\ UNCHANGED queue
              ELSE IF ~ExceedsInt(group)
              THEN /\ workers' = [workers EXCEPT ![w].nread = @ + 1]
                   /\ queue' = EmitProgress(w, DecimalValue(group), workers[w].total_size)
              ELSE /\ workers' = [workers EXCEPT ![w].nread = 0, ![w].pc = "done"]
                   /\ queue' = EmitFinished(w, FALSE, "OverflowError", 0)
    /\ UNCHANGED << explorerVars, guiVars >>

\* RunWait reporting success whatever the exit code is
RunWait_IgnoreExit(w) ==
    /\ ui.pc # "aborted"
    /\ workers[w].pc = "read"
    /\ \E rc \in ExitCodes :
          /\ workers' = [workers EXCEPT ![w].returncode = rc, ![w].pc = "done",
                                         ![w].nread = 0]
          /\ queue' = EmitFinished(w, TRUE, "Transfer completed successfully.", 0)
    /\ UNCHANGED << explorerVars, guiVars >>

\* run(), lines 45 and 62-66: end of output, process.wait(), the outcome
RunWait(w) ==
    /\ ui.pc # "aborted"
    /\ workers[w].pc = "read"
    /\ \E rc \in ExitCodes :
          /\ workers' = [workers EXCEPT ![w].returncode = rc, ![w].pc = "done",
                                         ![w].nread = 0]
          /\ queue' = IF rc = 0
                      THEN EmitFinished(w, TRUE, "Transfer completed successfully.", 0)
                      ELSE EmitFinished(w, FALSE, "Transfer failed with exit code", rc)
    /\ UNCHANGED << explorerVars, guiVars >>

\* the thread ends after run() returns: isRunning() becomes False
ThreadExit(w) ==
    /\ ui.pc # "aborted"
    /\ workers[w].pc = "done"
    /\ workers' = [workers EXCEPT ![w].pc = "exited"]
    /\ UNCHANGED << queue, explorerVars, guiVars >>

\* QThread.isRunning()
IsRunning(w) == workers[w].pc \in {"size", "stat", "popen", "read", "done"}

----------------------------------------------------------------------------
(* Paths and listings *)

\* the number of directory levels below the root that navigation may reach
MaxDepth == 2

\* the serials of the devices that may be attached
Devices == { << "A", "1" >> }

\* Adb.py line 75: the root of AdbFileExplorer
SdcardRoot == << "/", "s", "d", "c", "a", "r", "d" >>

\* main.py line 3: ANDROID_ROOT
ANDROID_ROOT == << "/", "s", "d", "c", "a", "r", "d", "/" >>

\* what 'adb shell ls -p' may print on stdout when it exits 0: a file and a
\* directory, the same with a file name that starts with a blank, and nothing
ListingOutputs ==
    { << "f", "\n", "b", "/", "\n" >>,
      << " ", "f", "\n", "b", "/", "\n" >>,
      << >> }

\* the outcome of one listing subprocess: its exit code and stdout; rc = -1 stands
\* for the call raising instead of returning
ListingResults ==
    { [rc |-> 0, out |-> o] : o \in ListingOutputs }
        \cup { [rc |-> 1, out |-> << >>], [rc |-> -1, out |-> << >>] }

\* the number of separators in a path
RECURSIVE CountSep(_)
CountSep(p) ==
    IF p = << >> THEN 0
    ELSE (IF Head(p) = "/" THEN 1 ELSE 0) + CountSep(Tail(p))

\* str.split(sep) for a one-character separator
RECURSIVE SplitAt(_, _, _)
SplitAt(s, sep, cur) ==
    IF s = << >> THEN << cur >>
    ELSE IF Head(s) = sep THEN << cur >> \o SplitAt(Tail(s), sep, << >>)
    ELSE SplitAt(Tail(s), sep, Append(cur, Head(s)))

Split(s, sep) == SplitAt(s, sep, << >>)

\* str.rstrip('/')
RECURSIVE RStripSep(_)
RStripSep(s) ==
    IF s # << >> /\ s[Len(s)] = "/" THEN RStripSep(SubSeq(s, 1, Len(s) - 1)) ELSE s

\* str.endswith('/')
EndsWithSep(s) == s # << >> /\ s[Len(s)] = "/"

\* os.path.join(path, name).replace('\\', '/')
Join(path, name) ==
    IF name # << >> /\ Head(name) = "/" THEN name
    ELSE IF path = << >> \/ EndsWithSep(path) THEN path \o name
    ELSE path \o << "/" >> \o name

\* the index of the last separator of a path, 0 when there is none
RECURSIVE LastSep(_)
LastSep(p) ==
    IF p = << >> THEN 0
    ELSE IF p[Len(p)] = "/" THEN Len(p)
    ELSE LastSep(SubSeq(p, 1, Len(p) - 1))

\* os.path.dirname(path)
Dirname(p) ==
    LET head == SubSeq(p, 1, LastSep(p))
    IN  IF RStripSep(head) = << >> THEN head ELSE RStripSep(head)

\* the non-empty lines of a listing, as refresh_file_list keeps them (lines 195-197)
RECURSIVE NonEmpty(_)
NonEmpty(items) ==
    IF items = << >> THEN << >>
    ELSE IF Head(items) = << >> THEN NonEmpty(Tail(items))
    ELSE << Head(items) >> \o NonEmpty(Tail(items))

ListingLines(out) == NonEmpty(Split(Strip(out), "\n"))

\* refresh_file_list lines 195-205: one list item per non-empty line
ListItems(out) ==
    LET lines == ListingLines(out)
    IN  [ i \in 1..Len(lines) |->
            [name |-> RStripSep(lines[i]), is_dir |-> EndsWithSep(lines[i])] ]

\* populate_tree_item lines 215-220: one child per directory line
RECURSIVE TreeChildren(_, _)
TreeChildren(path, lines) ==
    IF lines = << >> THEN << >>
    ELSE IF EndsWithSep(Head(lines))
    THEN << Join(path, RStripSep(Head(lines))) >> \o TreeChildren(path, Tail(lines))
    ELSE TreeChildren(path, Tail(lines))

\* populate_tree_item for the root item
PopulateTree(res) ==
    << SdcardRoot >> \o
        (IF res.rc = 0 THEN TreeChildren(SdcardRoot, ListingLines(res.out)) ELSE << >>)

\* refresh_file_list: the new items of file_list; treeRes and listRes are the two
\* listings it runs, for the tree root and for current_path
FileListAfter(dev, listRes) ==
    IF dev = NoDevice THEN file_list
    ELSE IF listRes.rc = 0 THEN ListItems(listRes.out) ELSE << >>

TreeAfter(dev, treeRes) ==
    IF dev = NoDevice THEN tree_widget ELSE PopulateTree(treeRes)

\* refresh_file_list as a step of a handler
refresh_file_list(treeRes, listRes) ==
    /\ file_list' = FileListAfter(device_id, listRes)
    /\ tree_widget' = TreeAfter(device_id, treeRes)

----------------------------------------------------------------------------
(* AdbFileExplorer, src/Adb.py: navigation *)

NoListing == -2

\* a listing subprocess can only be started while adb_path names a file
ListingResultsNow ==
    IF adb_exists THEN ListingResults ELSE { r \in ListingResults : r.rc = -1 }

\* last_op before any handler has run: op is the handler; rc and out are the exit code
\* and stdout of the last command it ran for its result (rc = -1 when the call raised,
\* NoListing when it ran none); refreshed tells whether it called refresh_file_list;
\* devices is the list check_device computed; selected, reply and paths are the
\* selection, the answer and the paths 'rm -rf' was called on in delete_items
NoOp ==
    [ op |-> "__init__", rc |-> NoListing, out |-> << >>, refreshed |-> FALSE,
      devices |-> << >>, selected |-> << >>, reply |-> "", paths |-> << >> ]

\* last_op of a handler that ended by calling refresh_file_list
Refreshed(op, listRes) ==
    [ NoOp EXCEPT !.op = op,
                  !.rc = IF device_id = NoDevice THEN NoListing ELSE listRes.rc,
                  !.out = IF device_id = NoDevice THEN << >> ELSE listRes.out,
                  !.refreshed = TRUE ]

\* the number of directory levels of a path below /sdcard
Depth(p) == CountSep(p) - 1

\* on_tree_double_click, lines 224-227
on_tree_double_click ==
    /\ ui.pc = "idle"
    /\ \E i \in 1..Len(tree_widget), treeRes \in ListingResultsNow, listRes \in ListingResultsNow :
          /\ current_path' = tree_widget[i]
          /\ refresh_file_list(treeRes, listRes)
          /\ last_op' = Refreshed("on_tree_double_click", listRes)
    /\ UNCHANGED << workers, queue, transfer_worker, push_button, pull_button, progress_bar,
                    progress_label, ui, device_id, adb_exists, status_label, guiVars >>

\* on_file_double_click, lines 229-234
on_file_double_click ==
    /\ ui.pc = "idle"
    /\ \E i \in 1..Len(file_list), treeRes \in ListingResultsNow, listRes \in ListingResultsNow :
          IF file_list[i].is_dir
          THEN /\ Depth(current_path) < MaxDepth
               /\ current_path' = Join(current_path, file_list[i].name)
               /\ refresh_file_list(treeRes, listRes)
               /\ last_op' = Refreshed("on_file_double_click", listRes)
          ELSE /\ last_op' = [NoOp EXCEPT !.op = "on_file_double_click"]
               /\ UNCHANGED << current_path, file_list, tree_widget >>
    /\ UNCHANGED << workers, queue, transfer_worker, push_button, pull_button, progress_bar,
                    progress_label, ui, device_id, adb_exists, status_label, guiVars >>

\* go_up without the test of line 237
go_up_Unguarded ==
    /\ ui.pc = "idle"
    /\ \E treeRes \in ListingResultsNow, listRes \in ListingResultsNow :
          /\ current_path' = Dirname(current_path)
          /\ refresh_file_list(treeRes, listRes)
          /\ last_op' = Refreshed("go_up", listRes)
    /\ UNCHANGED << workers, queue, transfer_worker, push_button, pull_button, progress_bar,
                    progress_label, ui, device_id, adb_exists, status_label, guiVars >>

\* go_up, lines 236-239
go_up ==
    /\ ui.pc = "idle"
    /\ IF current_path # SdcardRoot
       THEN \E treeRes \in ListingResultsNow, listRes \in ListingResultsNow :
               /\ current_path' = Dirname(current_path)
               /\ refresh_file_list(treeRes, listRes)
               /\ last_op' = Refreshed("go_up", listRes)
       ELSE /\ last_op' = [NoOp EXCEPT !.op = "go_up"]
            /\ UNCHANGED << current_path, file_list, tree_widget >>
    /\ UNCHANGED << workers, queue, transfer_worker, push_button, pull_button, progress_bar,
                    progress_label, ui, device_id, adb_exists, status_label, guiVars >>

----------------------------------------------------------------------------
(* ADBWindowsGUI, src/main.py *)

\* the number of _transfer threads started in one session
MaxThreads == 2

\* what 'adb shell ls' (without -p) may print on stdout when it exits 0
PlainListingOutputs ==
    { << "f", "\n", "b", "\n" >>,
      << >> }

\* adb_shell("ls", path): check_output returns stdout, or raises on a non-zero exit
\* or when adb cannot be run; failed = TRUE stands for the call raising
ShellResults ==
    { [failed |-> FALSE, out |-> o] : o \in PlainListingOutputs }
        \cup { [failed |-> TRUE, out |-> << >>] }

\* with no current device the argument list holds None and the call raises
ShellResultsFor(dev) ==
    IF dev = NoDevice THEN { r \in ShellResults : r.failed } ELSE ShellResults

\* str.splitlines() for '\n' line ends
Splitlines(s) ==
    IF s = << >> THEN << >>
    ELSE IF s[Len(s)] = "\n" THEN Split(SubSeq(s, 1, Len(s) - 1), "\n")
    ELSE Split(s, "\n")

\* "/".join(parts)
RECURSIVE JoinSep(_)
JoinSep(parts) ==
    IF parts = << >> THEN << >>
    ELSE IF Len(parts) = 1 THEN parts[1]
    ELSE parts[1] \o << "/" >> \o JoinSep(Tail(parts))

\* line 114 without the separator it appends
ParentPath_NoSep(p) ==
    LET parts == Split(RStripSep(p), "/")
    IN  JoinSep(SubSeq(parts, 1, Len(parts) - 1))

\* go_up line 114: "/".join(current_path.rstrip("/").split("/")[:-1]) + "/"
ParentPath(p) ==
    LET parts == Split(RStripSep(p), "/")
    IN  JoinSep(SubSeq(parts, 1, Len(parts) - 1)) \o << "/" >>

\* g_last_op before any handler has run: op is the handler; failed tells whether the
\* adb call it depends on raised; refreshed tells whether it called refresh_files; out
\* is the stdout load_devices read; selected, reply and paths are the selected path,
\* the answer and the paths 'rm -rf' was called on in delete
g_NoOp ==
    [ op |-> "__init__", failed |-> FALSE, refreshed |-> FALSE, out |-> << >>,
      selected |-> << >>, reply |-> "", paths |-> << >> ]

\* refresh_files, lines 92-100
refresh_files(path, res) ==
    /\ g_tree' = IF res.failed THEN << >> ELSE Splitlines(res.out)
    /\ g_path_label' = IF res.failed THEN g_path_label ELSE path

\* open_item, lines 102-110
open_item ==
    /\ g_alive
    /\ \E i \in 1..Len(g_tree), probe \in ShellResultsFor(g_current_device),
          res \in ShellResultsFor(g_current_device) :
          LET name == g_tree[i]
              new_path == g_current_path \o name \o << "/" >>
          IN  /\ CountSep(g_current_path) - 2 < MaxDepth
              /\ IF ~probe.failed
                 THEN /\ g_current_path' = new_path
                      /\ refresh_files(new_path, res)
                      /\ g_last_op' = [g_NoOp EXCEPT !.op = "open_item", !.refreshed = TRUE]
                      /\ UNCHANGED g_dialog
                 ELSE /\ g_dialog' = [title |-> "File", text |-> "Selected"]
                      /\ g_last_op' = [g_NoOp EXCEPT !.op = "open_item", !.failed = TRUE]
                      /\ UNCHANGED << g_current_path, g_tree, g_path_label >>
    /\ UNCHANGED << workers, queue, explorerVars, g_current_device, g_device_combo, g_progress,
                    g_threads, g_alive >>

\* ADBWindowsGUI.go_up without the test of line 113
g_go_up_Unguarded ==
    /\ g_alive
    /\ \E res \in ShellResultsFor(g_current_device) :
          /\ g_current_path' = ParentPath(g_current_path)
          /\ refresh_files(ParentPath(g_current_path), res)
          /\ g_last_op' = [ g_NoOp EXCEPT !.op = "go_up", !.failed = res.failed,
                                          !.refreshed = TRUE ]
    /\ UNCHANGED << workers, queue, explorerVars, g_current_device, g_device_combo, g_progress,
                    g_threads, g_dialog, g_alive >>

\* ADBWindowsGUI.go_up, lines 112-115
g_go_up ==
    /\ g_alive
    /\ IF g_current_path # ANDROID_ROOT
       THEN \E res \in ShellResultsFor(g_current_device) :
               /\ g_current_path' = ParentPath(g_current_path)
               /\ refresh_files(ParentPath(g_current_path), res)
               /\ g_last_op' = [ g_NoOp EXCEPT !.op = "go_up", !.failed = res.failed,
                                                !.refreshed = TRUE ]
       ELSE /\ g_last_op' = [g_NoOp EXCEPT !.op = "go_up"]
            /\ UNCHANGED << g_current_path, g_tree, g_path_label >>
    /\ UNCHANGED << workers, queue, explorerVars, g_current_device, g_device_combo, g_progress,
                    g_threads, g_dialog, g_alive >>

\* QProgressBar.setRange: a value outside the new range resets the bar to min - 1
SetRange(bar, lo, hi) ==
    [ min |-> lo, max |-> hi,
      value |-> IF bar.value < lo - 1 \/ bar.value > hi THEN lo - 1 ELSE bar.value ]

\* QProgressBar.setValue: a value outside the range is ignored, unless the range is 0..0
SetBarValue(bar, v) ==
    IF (v > bar.max \/ v < bar.min) /\ (bar.max # 0 \/ bar.min # 0)
    THEN bar
    ELSE [bar EXCEPT !.value = v]

\* push_from_pc, lines 149-153
push_from_pc ==
    /\ g_alive
    /\ Len(g_threads) < MaxThreads
    /\ \E chosen \in BOOLEAN :
          g_threads' = IF chosen
                       THEN Append(g_threads, [mode |-> "push", pc |-> "begin", rc |-> -1])
                       ELSE g_threads
    /\ UNCHANGED << workers, queue, explorerVars, g_current_path, g_current_device,
                    g_device_combo, g_tree, g_progress, g_dialog, g_path_label, g_alive,
                    g_last_op >>

\* pull_to_pc, lines 155-162; sel = 0 stands for no selected item
pull_to_pc ==
    /\ g_alive
    /\ Len(g_threads) < MaxThreads
    /\ \E sel \in 0..Len(g_tree), chosen \in BOOLEAN :
          g_threads' = IF sel # 0 /\ chosen
                       THEN Append(g_threads, [mode |-> "pull", pc |-> "begin", rc |-> -1])
                       ELSE g_threads
    /\ UNCHANGED << workers, queue, explorerVars, g_current_path, g_current_device,
                    g_device_combo, g_tree, g_progress, g_dialog, g_path_label, g_alive,
                    g_last_op >>

\* _transfer line 165, run by the thread
TransferBegin(t) ==
    /\ g_alive
    /\ g_threads[t].pc = "begin"
    /\ g_progress' = SetRange(g_progress, 0, 0)
    /\ g_threads' = [g_threads EXCEPT ![t].pc = "run"]
    /\ UNCHANGED << workers, queue, explorerVars, g_current_path, g_current_device,
                    g_device_combo, g_tree, g_dialog, g_path_label, g_alive, g_last_op >>

\* _transfer lines 166-170, run by the thread; rc = -1 stands for subprocess.run raising
TransferRun(t) ==
    /\ g_alive
    /\ g_threads[t].pc = "run"
    /\ \E rc \in ExitCodes \cup {-1}, res \in ShellResultsFor(g_current_device) :
          /\ g_current_device = NoDevice => rc = -1
          /\ IF rc = -1
             THEN /\ g_threads' = [g_threads EXCEPT ![t].pc = "died"]
                  /\ UNCHANGED << g_progress, g_tree, g_path_label, g_dialog >>
             ELSE /\ g_threads' = [g_threads EXCEPT ![t].pc = "exited", ![t].rc = rc]
                  /\ g_progress' = SetBarValue(SetRange(g_progress, 0, 1), 1)
                  /\ refresh_files(g_current_path, res)
                  /\ g_dialog' = [title |-> "Done", text |-> "Transfer Complete"]
    /\ UNCHANGED << workers, queue, explorerVars, g_current_path, g_current_device,
                    g_device_combo, g_alive, g_last_op >>

\* _transfer touches widgets from a thread that is not the GUI thread, which Qt does
\* not define: the calls may take effect (above) or end the process
TransferAbort(t) ==
    /\ g_alive
    /\ g_threads[t].pc \in {"begin", "run"}
    /\ g_alive' = FALSE
    /\ UNCHANGED << workers, queue, explorerVars, g_current_path, g_current_device,
                    g_device_combo, g_tree, g_progress, g_threads, g_dialog, g_path_label,
                    g_last_op >>

----------------------------------------------------------------------------
(* AdbFileExplorer, src/Adb.py: transfers *)

\* the number of TransferWorker objects created in one session
MaxWorkers == 2

\* the number of files one push_files or pull_files request selects
MaxFiles == 2

Idle == [pc |-> "idle", files |-> << >>]

\* the i-th local file the file dialog returns
LocalName(i) == << "p", Digits[i + 1] >>

\* the elements of a set of numbers in increasing order
RECURSIVE SortedSeq(_)
SortedSeq(S) ==
    IF S = {} THEN << >>
    ELSE LET m == CHOOSE x \in S : \A y \in S : x <= y
         IN  << m >> \o SortedSeq(S \ {m})

\* the progress bar of AdbFileExplorer keeps the default range 0..100
ExplorerBar(v) == [min |-> 0, max |-> 100, value |-> v]

\* start_transfer, lines 326-334
start_transfer(operation) ==
    /\ push_button' = FALSE
    /\ pull_button' = FALSE
    /\ progress_bar' = SetBarValue(ExplorerBar(progress_bar), 0).value
    /\ progress_label' = [kind |-> "Starting transfer...", a |-> 0, b |-> 0]
    /\ workers' = Append(workers, [NewWorker(device_id, operation) EXCEPT !.pc = "size"])
    /\ transfer_worker' = Len(workers) + 1

\* the rest of the loop of push_files / pull_files after one file
LoopRest == IF Len(ui.files) > 1 THEN [ui EXCEPT !.files = Tail(@)] ELSE Idle

\* push_files, lines 287-293: the guard and the file dialog
push_files ==
    /\ ui.pc = "idle"
    /\ push_button
    /\ IF transfer_worker # 0 /\ IsRunning(transfer_worker)
       THEN UNCHANGED ui
       ELSE \E n \in 0..MaxFiles :
               /\ Len(workers) + n <= MaxWorkers
               /\ ui' = IF n = 0 THEN Idle
                        ELSE [pc |-> "push_loop", files |-> [i \in 1..n |-> LocalName(i)]]
    /\ UNCHANGED << workers, queue, transfer_worker, push_button, pull_button, progress_bar,
                    progress_label, device_id, adb_exists, status_label, current_path,
                    file_list, tree_widget, last_op, guiVars >>

\* push_files, lines 294-304: one iteration up to the overwrite question; with no
\* device the 'test -e' call raises out of the handler, which ends the process
push_files_step ==
    /\ ui.pc = "push_loop"
    /\ IF device_id = NoDevice
       THEN /\ ui' = [pc |-> "aborted", files |-> << >>]
            /\ UNCHANGED << workers, transfer_worker, push_button, pull_button, progress_bar,
                            progress_label >>
       ELSE \E rc \in ExitCodes :
               IF rc = 0
               THEN /\ ui' = [ui EXCEPT !.pc = "push_ask"]
                    /\ UNCHANGED << workers, transfer_worker, push_button, pull_button,
                                    progress_bar, progress_label >>
               ELSE /\ start_transfer("push")
                    /\ ui' = LoopRest
    /\ UNCHANGED << queue, device_id, adb_exists, status_label, current_path, file_list,
                    tree_widget, last_op, guiVars >>

\* push_files, lines 301-302: the answer to the overwrite question
push_files_reply ==
    /\ ui.pc = "push_ask"
    /\ \E yes \in BOOLEAN : ui' = [ui EXCEPT !.pc = IF yes THEN "push_yes" ELSE "push_no"]
    /\ UNCHANGED << workers, queue, transfer_worker, push_button, pull_button, progress_bar,
                    progress_label, device_id, adb_exists, status_label, current_path,
                    file_list, tree_widget, last_op, guiVars >>

\* lines 303-304 with the test of the answer left out
push_files_answered_AnyAnswer ==
    /\ ui.pc \in {"push_yes", "push_no"}
    /\ start_transfer("push")
    /\ ui' = IF LoopRest = Idle THEN Idle ELSE [LoopRest EXCEPT !.pc = "push_loop"]
    /\ UNCHANGED << queue, device_id, adb_exists, status_label, current_path, file_list,
                    tree_widget, last_op, guiVars >>

\* push_files, lines 303-304: after No the loop continues with the next file, after
\* Yes the transfer is started first
push_files_answered ==
    /\ ui.pc \in {"push_yes", "push_no"}
    /\ IF ui.pc = "push_yes"
       THEN start_transfer("push")
       ELSE UNCHANGED << workers, transfer_worker, push_button, pull_button, progress_bar,
                         progress_label >>
    /\ ui' = IF LoopRest = Idle THEN Idle ELSE [LoopRest EXCEPT !.pc = "push_loop"]
    /\ UNCHANGED << queue, device_id, adb_exists, status_label, current_path, file_list,
                    tree_widget, last_op, guiVars >>

\* pull_files, lines 306-314: the guard, the selection and the directory dialog
pull_files ==
    /\ ui.pc = "idle"
    /\ pull_button
    /\ IF transfer_worker # 0 /\ IsRunning(transfer_worker)
       THEN UNCHANGED ui
       ELSE \E sel \in SUBSET (1..Len(file_list)), chosen \in BOOLEAN :
               /\ Cardinality(sel) <= MaxFiles
               /\ Len(workers) + Cardinality(sel) <= MaxWorkers
               /\ ui' = IF sel = {} \/ ~chosen THEN Idle
                        ELSE [ pc |-> "pull_loop",
                               files |-> [ i \in 1..Cardinality(sel) |->
                                             file_list[SortedSeq(sel)[i]].name ] ]
    /\ UNCHANGED << workers, queue, transfer_worker, push_button, pull_button, progress_bar,
                    progress_label, device_id, adb_exists, status_label, current_path,
                    file_list, tree_widget, last_op, guiVars >>

\* pull_files, lines 315-324: one iteration up to the overwrite question
pull_files_step ==
    /\ ui.pc = "pull_loop"
    /\ \E exists \in BOOLEAN :
          IF exists
          THEN /\ ui' = [ui EXCEPT !.pc = "pull_ask"]
               /\ UNCHANGED << workers, transfer_worker, push_button, pull_button, progress_bar,
                               progress_label >>
          ELSE /\ start_transfer("pull")
               /\ ui' = LoopRest
    /\ UNCHANGED << queue, device_id, adb_exists, status_label, current_path, file_list,
                    tree_widget, last_op, guiVars >>

\* pull_files, lines 321-322: the answer to the overwrite question
pull_files_reply ==
    /\ ui.pc = "pull_ask"
    /\ \E yes \in BOOLEAN : ui' = [ui EXCEPT !.pc = IF yes THEN "pull_yes" ELSE "pull_no"]
    /\ UNCHANGED << workers, queue, transfer_worker, push_button, pull_button, progress_bar,
                    progress_label, device_id, adb_exists, status_label, current_path,
                    file_list, tree_widget, last_op, guiVars >>

\* lines 323-324 with the test of the answer left out
pull_files_answered_AnyAnswer ==
    /\ ui.pc \in {"pull_yes", "pull_no"}
    /\ start_transfer("pull")
    /\ ui' = IF LoopRest = Idle THEN Idle ELSE [LoopRest EXCEPT !.pc = "pull_loop"]
    /\ UNCHANGED << queue, device_id, adb_exists, status_label, current_path, file_list,
                    tree_widget, last_op, guiVars >>

\* pull_files, lines 323-324: after No the loop continues with the next file, after
\* Yes the transfer is started first
pull_files_answered ==
    /\ ui.pc \in {"pull_yes", "pull_no"}
    /\ IF ui.pc = "pull_yes"
       THEN start_transfer("pull")
       ELSE UNCHANGED << workers, transfer_worker, push_button, pull_button, progress_bar,
                         progress_label >>
    /\ ui' = IF LoopRest = Idle THEN Idle ELSE [LoopRest EXCEPT !.pc = "pull_loop"]
    /\ UNCHANGED << queue, device_id, adb_exists, status_label, current_path, file_list,
                    tree_widget, last_op, guiVars >>

\* the GUI thread runs queued slots in its event loop, also the one of a message box
EventLoopRuns == ui.pc \in {"idle", "push_ask", "pull_ask", "delete_ask"}

\* update_progress, lines 336-338, for the signal at the head of the queue
update_progress ==
    /\ EventLoopRuns
    /\ queue # << >>
    /\ Head(queue).sig = "progress"
    /\ progress_bar' = SetBarValue(ExplorerBar(progress_bar), Head(queue).percent).value
    /\ progress_label' = Head(queue).text
    /\ queue' = Tail(queue)
    /\ UNCHANGED << workers, transfer_worker, push_button, pull_button, ui, device_id,
                    adb_exists, status_label, current_path, file_list, tree_widget, last_op,
                    guiVars >>

\* on_transfer_finished with line 343 left out
on_transfer_finished_KeepsBar ==
    /\ EventLoopRuns
    /\ queue # << >>
    /\ Head(queue).sig = "finished"
    /\ push_button' = TRUE
    /\ pull_button' = TRUE
    /\ UNCHANGED progress_bar
    /\ progress_label' = Head(queue).text
    /\ IF Head(queue).success
       THEN \E treeRes \in ListingResultsNow, listRes \in ListingResultsNow :
               refresh_file_list(treeRes, listRes)
       ELSE UNCHANGED << file_list, tree_widget >>
    /\ queue' = Tail(queue)
    /\ UNCHANGED << workers, transfer_worker, ui, device_id, adb_exists, status_label,
                    current_path, last_op, guiVars >>

\* on_transfer_finished, lines 340-346, for the signal at the head of the queue
on_transfer_finished ==
    /\ EventLoopRuns
    /\ queue # << >>
    /\ Head(queue).sig = "finished"
    /\ push_button' = TRUE
    /\ pull_button' = TRUE
    /\ progress_bar' =
          SetBarValue(ExplorerBar(progress_bar), IF Head(queue).success THEN 100 ELSE 0).value
    /\ progress_label' = Head(queue).text
    /\ IF Head(queue).success
       THEN \E treeRes \in ListingResultsNow, listRes \in ListingResultsNow :
               refresh_file_list(treeRes, listRes)
       ELSE UNCHANGED << file_list, tree_widget >>
    /\ queue' = Tail(queue)
    /\ UNCHANGED << workers, transfer_worker, ui, device_id, adb_exists, status_label,
                    current_path, last_op, guiVars >>

----------------------------------------------------------------------------
(* AdbFileExplorer, src/Adb.py, and ADBWindowsGUI, src/main.py: changes on the device *)

\* the folder names the input dialog may return
FolderNames == { << "n" >>, << >> }

\* a command of a handler is started: adb_path names a file and the argument list
\* holds no None
CanRun == adb_exists /\ device_id # NoDevice

\* create_folder, lines 257-269; rc = -1 stands for subprocess.run raising
create_folder ==
    /\ ui.pc = "idle"
    /\ \E ok \in BOOLEAN, name \in FolderNames :
          IF ok /\ name # << >>
          THEN \E rc \in ExitCodes \cup {-1} :
                  /\ ~CanRun => rc = -1
                  /\ IF rc = 0
                     THEN \E treeRes \in ListingResultsNow, listRes \in ListingResultsNow :
                             /\ refresh_file_list(treeRes, listRes)
                             /\ last_op' = Refreshed("create_folder", listRes)
                     ELSE /\ last_op' = [NoOp EXCEPT !.op = "create_folder", !.rc = rc]
                          /\ UNCHANGED << file_list, tree_widget >>
          ELSE /\ last_op' = [NoOp EXCEPT !.op = "create_folder"]
               /\ UNCHANGED << file_list, tree_widget >>
    /\ UNCHANGED << workers, queue, transfer_worker, push_button, pull_button, progress_bar,
                    progress_label, ui, device_id, current_path, adb_exists, status_label,
                    guiVars >>

\* delete_items, lines 271-275: the selection, up to the confirmation question
delete_items ==
    /\ ui.pc = "idle"
    /\ \E sel \in SUBSET (1..Len(file_list)) :
          LET selected == [i \in 1..Cardinality(sel) |-> file_list[SortedSeq(sel)[i]].name]
          IN  /\ ui' = IF sel = {} THEN Idle ELSE [pc |-> "delete_ask", files |-> selected]
              /\ last_op' = [NoOp EXCEPT !.op = "delete_items", !.selected = selected]
    /\ UNCHANGED << workers, queue, transfer_worker, push_button, pull_button, progress_bar,
                    progress_label, device_id, current_path, file_list, tree_widget, adb_exists,
                    status_label, guiVars >>

\* delete_items with the test of line 276 left out
delete_items_reply_AnyAnswer ==
    /\ ui.pc = "delete_ask"
    /\ \E yes \in BOOLEAN, treeRes \in ListingResultsNow, listRes \in ListingResultsNow :
          /\ refresh_file_list(treeRes, listRes)
          /\ last_op' =
                [ Refreshed("delete_items", listRes) EXCEPT
                    !.selected = ui.files,
                    !.reply = IF yes THEN "yes" ELSE "no",
                    !.paths = IF CanRun
                              THEN [i \in 1..Len(ui.files) |-> Join(current_path, ui.files[i])]
                              ELSE << >> ]
    /\ ui' = Idle
    /\ UNCHANGED << workers, queue, transfer_worker, push_button, pull_button, progress_bar,
                    progress_label, device_id, current_path, adb_exists, status_label,
                    guiVars >>

\* delete_items, lines 275-285: the answer, one 'rm -rf' per selected item (a call
\* that raises is caught, line 283), then refresh_file_list
delete_items_reply ==
    /\ ui.pc = "delete_ask"
    /\ \E yes \in BOOLEAN, treeRes \in ListingResultsNow, listRes \in ListingResultsNow :
          IF yes
          THEN /\ refresh_file_list(treeRes, listRes)
               /\ last_op' =
                     [ Refreshed("delete_items", listRes) EXCEPT
                         !.selected = ui.files,
                         !.reply = "yes",
                         !.paths = IF CanRun
                                   THEN [ i \in 1..Len(ui.files) |->
                                            Join(current_path, ui.files[i]) ]
                                   ELSE << >> ]
          ELSE /\ last_op' = [ NoOp EXCEPT !.op = "delete_items", !.selected = ui.files,
                                           !.reply = "no" ]
               /\ UNCHANGED << file_list, tree_widget >>
    /\ ui' = Idle
    /\ UNCHANGED << workers, queue, transfer_worker, push_button, pull_button, progress_bar,
                    progress_label, device_id, current_path, adb_exists, status_label,
                    guiVars >>

\* selected_item, lines 117-119, for the selected tree item sel (0 = none)
selected_item(sel) == IF sel = 0 THEN << >> ELSE g_current_path \o g_tree[sel]

\* ADBWindowsGUI.delete, lines 140-146; started = FALSE stands for subprocess.run
\* raising, which ends the handler
g_delete ==
    /\ g_alive
    /\ \E sel \in 0..Len(g_tree), yes \in BOOLEAN, started \in BOOLEAN,
          res \in ShellResultsFor(g_current_device) :
          LET path == selected_item(sel)
          IN  /\ g_current_device = NoDevice => ~started
              /\ IF path # << >> /\ yes /\ started
                 THEN /\ refresh_files(g_current_path, res)
                      /\ g_last_op' = [ g_NoOp EXCEPT !.op = "delete", !.selected = path,
                                                      !.reply = "yes", !.paths = << path >>,
                                                      !.failed = res.failed,
                                                      !.refreshed = TRUE ]
                 ELSE /\ g_last_op' =
                            [ g_NoOp EXCEPT !.op = "delete", !.selected = path,
                                           !.reply = IF path = << >> THEN ""
                                                     ELSE IF yes THEN "yes" ELSE "no",
                                           !.failed = (path # << >> /\ yes) ]
                      /\ UNCHANGED << g_tree, g_path_label >>
    /\ UNCHANGED << workers, queue, explorerVars, g_current_path, g_current_device,
                    g_device_combo, g_progress, g_threads, g_dialog, g_alive >>

----------------------------------------------------------------------------
(* Device enumeration, src/Adb.py check_device and src/main.py load_devices *)

\* the first line 'adb devices' prints
DeviceHeader ==
    << "L", "i", "s", "t", " ", "o", "f", " ", "d", "e", "v", "i", "c", "e", "s", " ", "a",
       "t", "t", "a", "c", "h", "e", "d" >>

\* what 'adb devices' may print on stdout: the header, one line '<serial>\t<status>'
\* per attached device, and an empty line
DeviceOutputs ==
    { DeviceHeader \o << "\n" >> \o d : d \in {
      \* no device attached
      << "\n" >>,
      \* one device
            << "A", "1", "\t", "d", "e", "v", "i", "c", "e", "\n", "\n" >>,
      \* an offline device listed before a device
            << "B", "2", "\t", "o", "f", "f", "l", "i", "n", "e", "\n", "A", "1", "\t", "d", "e",
         "v", "i", "c", "e", "\n", "\n" >>,
      \* two devices
            << "B", "2", "\t", "d", "e", "v", "i", "c", "e", "\n", "A", "1", "\t", "d", "e", "v",
         "i", "c", "e", "\n", "\n" >>,
      \* an offline device whose serial holds the word 'device'
            << "d", "e", "v", "i", "c", "e", "9", "\t", "o", "f", "f", "l", "i", "n", "e", "\n",
         "\n" >>,
      \* an unauthorized device
            << "A", "1", "\t", "u", "n", "a", "u", "t", "h", "o", "r", "i", "z", "e", "d", "\n",
         "\n" >> } }

\* the outcome of one 'adb devices' subprocess: its exit code and stdout; rc = -1
\* stands for the call raising instead of returning
DeviceResults ==
    { [rc |-> 0, out |-> o] : o \in DeviceOutputs }
        \cup { [rc |-> 1, out |-> << >>], [rc |-> -1, out |-> << >>] }

\* sub in s, for two strings
Contains(s, sub) ==
    \E i \in 1..(Len(s) - Len(sub) + 1) : SubSeq(s, i, i + Len(sub) - 1) = sub

\* str.split()[0]: the first run of non-blank characters
RECURSIVE UntilSpace(_)
UntilSpace(s) ==
    IF s = << >> \/ IsSpace(Head(s)) THEN << >> ELSE << Head(s) >> \o UntilSpace(Tail(s))

FirstField(line) == UntilSpace(LStrip(line))

\* check_device lines 167-171: the serials AdbFileExplorer takes from the output
CheckDeviceList(out) ==
    LET lines == Tail(Split(Strip(out), "\n"))
        kept == SelectSeq(lines, LAMBDA l : /\ Strip(l) # << >>
                                            /\ Contains(l, << "d", "e", "v", "i", "c", "e" >>))
    IN  [ i \in 1..Len(kept) |-> Split(kept[i], "\t")[1] ]

\* load_devices line 78: the serials ADBWindowsGUI takes from the output
LoadDeviceList(out) ==
    LET kept == SelectSeq(Splitlines(out),
                          LAMBDA l : Contains(l, << "\t", "d", "e", "v", "i", "c", "e" >>))
    IN  [ i \in 1..Len(kept) |-> FirstField(kept[i]) ]

\* check_device lines 172 and 175: the texts of status_label
Connected(dev) == [text |-> "Device:", device |-> dev]

NoDeviceLabel == [text |-> "Device: Not connected", device |-> NoDevice]

\* check_device lines 164 and 177: the other texts of status_label
AdbNotFound == [text |-> "ADB not found", device |-> NoDevice]

ErrorChecking == [text |-> "Error checking device", device |-> NoDevice]

\* check_device, lines 162-177, run by the 5 s timer (lines 158-160) whenever the
\* event loop of the GUI thread runs
check_device ==
    /\ EventLoopRuns
    /\ IF ~adb_exists
       THEN /\ status_label' = AdbNotFound
            /\ last_op' = [NoOp EXCEPT !.op = "check_device"]
            /\ UNCHANGED device_id
       ELSE \E res \in DeviceResults :
               IF res.rc = -1
               THEN /\ status_label' = ErrorChecking
                    /\ last_op' = [NoOp EXCEPT !.op = "check_device", !.rc = -1]
                    /\ UNCHANGED device_id
               ELSE LET devices == CheckDeviceList(res.out)
                    IN  /\ device_id' = IF devices # << >> THEN devices[1] ELSE NoDevice
                        /\ status_label' = IF devices # << >> THEN Connected(devices[1])
                                           ELSE NoDeviceLabel
                        /\ last_op' = [ NoOp EXCEPT !.op = "check_device", !.rc = res.rc,
                                                    !.out = res.out, !.devices = devices ]
    /\ UNCHANGED << workers, queue, transfer_worker, push_button, pull_button, progress_bar,
                    progress_label, ui, current_path, file_list, tree_widget, adb_exists,
                    guiVars >>

\* the file adb_path names is removed (the environment of AdbFileExplorer)
AdbRemoved ==
    /\ adb_exists
    /\ adb_exists' = FALSE
    /\ UNCHANGED << workers, queue, transfer_worker, push_button, pull_button, progress_bar,
                    progress_label, ui, device_id, current_path, file_list, tree_widget,
                    last_op, status_label, guiVars >>

\* the file adb_path names is put back
AdbRestored ==
    /\ ~adb_exists
    /\ adb_exists' = TRUE
    /\ UNCHANGED << workers, queue, transfer_worker, push_button, pull_button, progress_bar,
                    progress_label, ui, device_id, current_path, file_list, tree_widget,
                    last_op, status_label, guiVars >>

\* load_devices, lines 75-86, run by the Refresh button; check_output raises when adb
\* exits non-zero or cannot be run
load_devices ==
    /\ g_alive
    /\ \E res \in DeviceResults :
          IF res.rc # 0
          THEN /\ g_dialog' = [title |-> "ADB Error", text |-> "str(e)"]
               /\ g_last_op' = [g_NoOp EXCEPT !.op = "load_devices", !.failed = TRUE]
               /\ UNCHANGED << g_device_combo, g_current_device >>
          ELSE LET devices == LoadDeviceList(res.out)
               IN  /\ g_device_combo' = devices
                   /\ g_current_device' = IF devices # << >> THEN devices[1]
                                          ELSE g_current_device
                   /\ g_dialog' = IF devices # << >> THEN g_dialog
                                  ELSE [ title |-> "No Device",
                                         text |-> "No Android device detected" ]
                   /\ g_last_op' = [g_NoOp EXCEPT !.op = "load_devices", !.out = res.out]
    /\ UNCHANGED << workers, queue, explorerVars, g_current_path, g_tree, g_progress, g_threads,
                    g_path_label, g_alive >>

----------------------------------------------------------------------------
(* Initial states and specifications *)

NoDevices == Devices \cup {NoDevice}

\* AdbFileExplorer.__init__, lines 71-79: check_device, then refresh_file_list
ExplorerInit ==
    /\ transfer_worker = 0
    /\ push_button = TRUE
    /\ pull_button = TRUE
    /\ progress_bar = -1
    /\ progress_label = [kind |-> "Ready", a |-> 0, b |-> 0]
    /\ ui = Idle
    /\ current_path = SdcardRoot
    /\ device_id \in NoDevices
    /\ adb_exists = TRUE
    /\ status_label = IF device_id = NoDevice THEN NoDeviceLabel ELSE Connected(device_id)
    /\ \E treeRes \in ListingResults, listRes \in ListingResults :
          /\ tree_widget = IF device_id = NoDevice THEN << >> ELSE PopulateTree(treeRes)
          /\ file_list = IF device_id = NoDevice \/ listRes.rc # 0 THEN << >>
                         ELSE ListItems(listRes.out)
          /\ last_op = NoOp

\* an AdbFileExplorer that found no device, for the specifications it takes no part in
ExplorerIdle ==
    /\ transfer_worker = 0
    /\ push_button = TRUE
    /\ pull_button = TRUE
    /\ progress_bar = -1
    /\ progress_label = [kind |-> "Ready", a |-> 0, b |-> 0]
    /\ ui = Idle
    /\ current_path = SdcardRoot
    /\ device_id = NoDevice
    /\ adb_exists = TRUE
    /\ status_label = NoDeviceLabel
    /\ tree_widget = << >>
    /\ file_list = << >>
    /\ last_op = NoOp

\* ADBWindowsGUI.__init__, lines 5-14: load_devices, then refresh_files
GuiInit ==
    /\ g_current_path = ANDROID_ROOT
    /\ g_current_device \in NoDevices
    /\ g_device_combo = IF g_current_device = NoDevice THEN << >> ELSE << g_current_device >>
    /\ g_progress = [min |-> 0, max |-> 100, value |-> -1]
    /\ g_threads = << >>
    /\ g_dialog = IF g_current_device = NoDevice
                  THEN [title |-> "No Device", text |-> "No Android device detected"]
                  ELSE [title |-> "", text |-> ""]
    /\ g_path_label = ANDROID_ROOT
    /\ g_alive = TRUE
    /\ \E res \in ShellResultsFor(g_current_device) :
          /\ g_tree = IF res.failed THEN << >> ELSE Splitlines(res.out)
          /\ g_last_op = [g_NoOp EXCEPT !.failed = res.failed, !.refreshed = TRUE]

\* an ADBWindowsGUI that found no device, for the specifications it takes no part in
GuiIdle ==
    /\ g_current_path = ANDROID_ROOT
    /\ g_current_device = NoDevice
    /\ g_device_combo = << >>
    /\ g_progress = [min |-> 0, max |-> 100, value |-> -1]
    /\ g_threads = << >>
    /\ g_dialog = [title |-> "No Device", text |-> "No Android device detected"]
    /\ g_path_label = ANDROID_ROOT
    /\ g_alive = TRUE
    /\ g_tree = << >>
    /\ g_last_op = [g_NoOp EXCEPT !.failed = TRUE, !.refreshed = TRUE]

\* one TransferWorker on which start() has been called
InitWorker ==
    /\ \E dev \in NoDevices, operation \in {"push", "pull"} :
          workers = << [NewWorker(dev, operation) EXCEPT !.pc = "size"] >>
    /\ queue = << >>
    /\ ExplorerIdle
    /\ GuiIdle

NextWorker ==
    \/ \E w \in DOMAIN workers : RunSize(w)
    \/ \E w \in DOMAIN workers : RunStatResult(w)
    \/ \E w \in DOMAIN workers : RunPopen(w)
    \/ \E w \in DOMAIN workers : RunReadLine(w)
    \/ \E w \in DOMAIN workers : RunWait(w)
    \/ \E w \in DOMAIN workers : ThreadExit(w)

\* TransferWorker.run on its own; queue holds every signal it has emitted
SpecWorker == InitWorker /\ [][NextWorker]_vars

InitTransfer ==
    /\ workers = << >>
    /\ queue = << >>
    /\ ExplorerInit
    /\ GuiIdle

NextTransfer ==
    \/ push_files
    \/ push_files_step
    \/ push_files_reply
    \/ push_files_answered
    \/ pull_files
    \/ pull_files_step
    \/ pull_files_reply
    \/ pull_files_answered
    \/ update_progress
    \/ on_transfer_finished
    \/ \E w \in DOMAIN workers : RunSize(w)
    \/ \E w \in DOMAIN workers : RunStatResult(w)
    \/ \E w \in DOMAIN workers : RunPopen(w)
    \/ \E w \in DOMAIN workers : RunReadLine(w)
    \/ \E w \in DOMAIN workers : RunWait(w)
    \/ \E w \in DOMAIN workers : ThreadExit(w)

\* the transfers of an AdbFileExplorer session
SpecTransfer == InitTransfer /\ [][NextTransfer]_vars

\* the number of transfers requested in a session of SpecCapture
MaxCaptured == 1

\* the request selects no more files than the session may still transfer
WithinCaptured == Len(workers) + Len(ui'.files) <= MaxCaptured

NextCapture ==
    \/ check_device
    \/ push_files /\ WithinCaptured
    \/ push_files_step
    \/ push_files_reply
    \/ push_files_answered
    \/ pull_files /\ WithinCaptured
    \/ pull_files_step
    \/ pull_files_reply
    \/ pull_files_answered
    \/ update_progress
    \/ on_transfer_finished
    \/ \E w \in DOMAIN workers : RunSize(w)
    \/ \E w \in DOMAIN workers : RunStatResult(w)
    \/ \E w \in DOMAIN workers : RunPopen(w)
    \/ \E w \in DOMAIN workers : RunReadLine(w)
    \/ \E w \in DOMAIN workers : RunWait(w)
    \/ \E w \in DOMAIN workers : ThreadExit(w)

\* the transfers of an AdbFileExplorer session while the timer runs check_device
SpecCapture == InitTransfer /\ [][NextCapture]_vars

InitNav ==
    /\ workers = << >>
    /\ queue = << >>
    /\ ExplorerInit
    /\ GuiInit

NextNav ==
    \/ on_tree_double_click
    \/ on_file_double_click
    \/ go_up
    \/ open_item
    \/ g_go_up

\* navigation in both programs
SpecNav == InitNav /\ [][NextNav]_vars

InitGui ==
    /\ workers = << >>
    /\ queue = << >>
    /\ ExplorerIdle
    /\ GuiInit

NextGui ==
    \/ open_item
    \/ g_go_up
    \/ push_from_pc
    \/ pull_to_pc
    \/ \E t \in DOMAIN g_threads : TransferBegin(t)
    \/ \E t \in DOMAIN g_threads : TransferRun(t)
    \/ \E t \in DOMAIN g_threads : TransferAbort(t)

\* an ADBWindowsGUI session
SpecGui == InitGui /\ [][NextGui]_vars

\* AdbFileExplorer.__init__, lines 71-79 and 158-160, whether or not adb_path names a
\* file: check_device, then refresh_file_list
SessionInit ==
    /\ transfer_worker = 0
    /\ push_button = TRUE
    /\ pull_button = TRUE
    /\ progress_bar = -1
    /\ progress_label = [kind |-> "Ready", a |-> 0, b |-> 0]
    /\ ui = Idle
    /\ current_path = SdcardRoot
    /\ adb_exists \in BOOLEAN
    /\ device_id \in IF adb_exists THEN NoDevices ELSE {NoDevice}
    /\ status_label = IF ~adb_exists THEN AdbNotFound
                      ELSE IF device_id = NoDevice THEN NoDeviceLabel
                      ELSE Connected(device_id)
    /\ \E treeRes \in ListingResults, listRes \in ListingResults :
          /\ tree_widget = IF device_id = NoDevice THEN << >> ELSE PopulateTree(treeRes)
          /\ file_list = IF device_id = NoDevice \/ listRes.rc # 0 THEN << >>
                         ELSE ListItems(listRes.out)
          /\ last_op = NoOp

InitSession ==
    /\ workers = << >>
    /\ queue = << >>
    /\ SessionInit
    /\ GuiIdle

NextSession ==
    \/ check_device
    \/ AdbRemoved
    \/ AdbRestored
    \/ on_tree_double_click
    \/ on_file_double_click
    \/ go_up
    \/ create_folder
    \/ delete_items
    \/ delete_items_reply

\* an AdbFileExplorer session without transfers, the adb file coming and going
SpecSession == InitSession /\ [][NextSession]_vars

NextFiles ==
    \/ on_file_double_click
    \/ go_up
    \/ delete_items
    \/ delete_items_reply
    \/ open_item
    \/ g_go_up
    \/ g_delete

\* entering, leaving and deleting entries in both programs
SpecFiles == InitNav /\ [][NextFiles]_vars

InitDevices ==
    /\ workers = << >>
    /\ queue = << >>
    /\ ExplorerInit
    /\ GuiInit

NextDevices ==
    \/ check_device
    \/ AdbRemoved
    \/ AdbRestored
    \/ load_devices

\* device enumeration in both programs
SpecDevices == InitDevices /\ [][NextDevices]_vars

----------------------------------------------------------------------------
(* Properties of TransferWorker.run, checked under SpecWorker, where queue holds
   every signal the worker has emitted *)

\* run() has returned
Returned(w) == workers[w].pc \in {"done", "exited"}

\* the positions in queue of the signals of worker w
SignalsOf(w, sig) == { i \in DOMAIN queue : queue[i].w = w /\ queue[i].sig = sig }

\* C1: every run of TransferWorker.run emits 'finished' exactly once: not before it
\* returns, and once it has returned the signal has been emitted one time, never twice
C1_FinishedExactlyOnce ==
    \A w \in DOMAIN workers :
        Cardinality(SignalsOf(w, "finished")) = IF Returned(w) THEN 1 ELSE 0

\* a run that raised inside the loop, after a progress signal, has emitted one 'finished'
C1_Witness ==
    \E w \in DOMAIN workers :
        /\ workers[w].pc = "exited"
        /\ Len(queue) = 2
        /\ queue[1].sig = "progress"
        /\ queue[2].sig = "finished" /\ queue[2].text.kind = "OverflowError"

\* C4: once the transfer subprocess has been started and process.wait() has returned
\* its exit code, the outcome is success exactly if the code is 0, and a failure
\* message carries the code
C4_OutcomeFollowsExitCode ==
    \A w \in DOMAIN workers :
        (workers[w].started /\ workers[w].returncode # -1) =>
            \A i \in SignalsOf(w, "finished") :
                /\ queue[i].success <=> (workers[w].returncode = 0)
                /\ workers[w].returncode # 0 =>
                      /\ queue[i].text.kind = "Transfer failed with exit code"
                      /\ queue[i].text.a = workers[w].returncode

\* a started subprocess exited with code 1 and the run reported the failure
C4_Witness ==
    \E w \in DOMAIN workers :
        /\ workers[w].started
        /\ workers[w].returncode = 1
        /\ \E i \in SignalsOf(w, "finished") : ~queue[i].success /\ queue[i].text.a = 1

\* C6: the percent values one run emits on 'progress' never decrease
C6_ProgressNonDecreasing ==
    \A w \in DOMAIN workers :
        \A i, j \in SignalsOf(w, "progress") :
            i < j => queue[i].percent <= queue[j].percent

\* C7: every percent value a run emits on 'progress' lies in 0..100
C7_PercentInRange ==
    \A i \in DOMAIN queue :
        queue[i].sig = "progress" => queue[i].percent \in 0..100

\* C8: once a worker has emitted its terminal outcome it emits no further signal and
\* never goes back to sizing or transferring
C8_NothingAfterTerminal ==
    [][ \A w \in DOMAIN workers :
            SignalsOf(w, "finished") # {} =>
                /\ queue' = queue
                /\ workers'[w].pc \in {"done", "exited"}
                /\ workers'[w].started = workers[w].started ]_vars

\* a run that emitted progress and then its outcome has ended
C8_Witness ==
    \E w \in DOMAIN workers :
        /\ workers[w].pc = "exited"
        /\ SignalsOf(w, "progress") # {}
        /\ SignalsOf(w, "finished") # {}

\* line 33 has returned a result from which no size can be taken
SizeUnknown(w) ==
    /\ workers[w].pc = "stat"
    /\ workers[w].result.rc # 0 \/ ~IntAccepts(workers[w].result.out)

\* C9: a pull whose 'stat' exits non-zero, or prints nothing or no integer, ends in
\* failure without the pull subprocess being started and without a size being set
C9_PullFailsWithoutSize ==
    [][ \A w \in DOMAIN workers :
            /\ SizeUnknown(w) =>
                  \/ workers'[w] = workers[w]
                  \/ /\ workers'[w].pc = "done"
                     /\ ~workers'[w].started
                     /\ workers'[w].total_size = 0
                     /\ queue' # << >>
                     /\ queue'[Len(queue')].w = w
                     /\ queue'[Len(queue')].sig = "finished"
                     /\ ~queue'[Len(queue')].success
            /\ (Returned(w) /\ ~workers[w].started) => ~workers'[w].started ]_vars

\* a pull whose 'stat' printed no integer has ended in failure, never started
C9_Witness ==
    \E w \in DOMAIN workers :
        /\ workers[w].operation = "pull"
        /\ workers[w].pc = "exited"
        /\ ~workers[w].started
        /\ workers[w].total_size = 0
        /\ \E i \in SignalsOf(w, "finished") : queue[i].text.kind = "ValueError"

----------------------------------------------------------------------------
(* Properties of an AdbFileExplorer session, checked under SpecTransfer *)

\* run() of the worker has been started and has not yet emitted its outcome
InFlight(w) == workers[w].pc \in {"size", "stat", "popen", "read"}

\* C2: at most one transfer is in flight at any time of a session
C2_AtMostOneTransfer ==
    Cardinality({ w \in DOMAIN workers : InFlight(w) }) <= 1

\* C3: while any transfer is in flight the push and pull buttons are disabled
C3_ButtonsDisabledInFlight ==
    (\E w \in DOMAIN workers : InFlight(w)) => (~push_button /\ ~pull_button)

----------------------------------------------------------------------------
(* Properties of an ADBWindowsGUI session, checked under SpecGui *)

\* the user is told the transfer is complete: the bar is full and 'Done' is shown
ReportedComplete(bar, dialog) ==
    /\ bar.value = bar.max
    /\ dialog = [title |-> "Done", text |-> "Transfer Complete"]

\* C5: a _transfer whose adb subprocess exits with a non-zero code does not end by
\* reporting a completed transfer
C5_NonZeroExitNotReportedComplete ==
    [][ \A t \in DOMAIN g_threads :
            ( /\ g_threads[t].pc = "run"
              /\ g_threads'[t].pc = "exited"
              /\ g_threads'[t].rc # 0 ) => ~ReportedComplete(g_progress', g_dialog') ]_vars

----------------------------------------------------------------------------
(* Properties of device enumeration in both programs, checked under SpecDevices *)

\* the blank-separated fields of a line
RECURSIVE Fields(_)
Fields(line) ==
    LET rest == LStrip(line)
        field == UntilSpace(rest)
    IN  IF rest = << >> THEN << >>
        ELSE << field >> \o Fields(SubSeq(rest, Len(field) + 1, Len(rest)))

\* the line is '<serial> <status>' with the status 'device'
HasStatusDevice(line) ==
    Len(Fields(line)) = 2 /\ Fields(line)[2] = << "d", "e", "v", "i", "c", "e" >>

\* the serials of the lines after the header whose status is 'device', in order
StatusDevices(out) ==
    LET lines == IF Splitlines(out) = << >> THEN << >> ELSE Tail(Splitlines(out))
        kept == SelectSeq(lines, HasStatusDevice)
    IN  [ i \in 1..Len(kept) |-> Fields(kept[i])[1] ]

\* check_device has read the output of an enumeration
Enumerated == last_op.op = "check_device" /\ last_op.rc \notin {-1, NoListing}

\* load_devices has read the output of an enumeration
g_Enumerated == g_last_op.op = "load_devices" /\ ~g_last_op.failed

\* C11: after an enumeration whose output has no line with the status 'device', no
\* device is selected, in AdbFileExplorer and in ADBWindowsGUI
C11_NoDeviceAfterEmptyEnumeration ==
    /\ (Enumerated /\ StatusDevices(last_op.out) = << >>) => device_id = NoDevice
    /\ (g_Enumerated /\ StatusDevices(g_last_op.out) = << >>) => g_current_device = NoDevice

\* C15: the device list an enumeration computes is the serials of the lines whose
\* status field is 'device', in the order of the output, in both programs
C15_DeviceListIsStatusDevice ==
    /\ Enumerated => last_op.devices = StatusDevices(last_op.out)
    /\ g_Enumerated => g_device_combo = StatusDevices(g_last_op.out)

----------------------------------------------------------------------------
(* Properties of navigation in both programs, checked under SpecNav *)

\* C10: when entering an entry fails because the listing of the target fails,
\* current_path is what it was before, in AdbFileExplorer and in ADBWindowsGUI
C10_PathKeptWhenListingFails ==
    [][ /\ ( /\ last_op'.op \in {"on_file_double_click", "on_tree_double_click"}
             /\ last_op'.rc \notin {0, NoListing} ) => current_path' = current_path
        /\ ( /\ g_last_op'.op = "open_item"
             /\ g_last_op'.failed ) => g_current_path' = g_current_path ]_vars

\* C12: go_up while current_path is the root leaves current_path and the lists as
\* they are and runs no listing, in AdbFileExplorer ('/sdcard') and in ADBWindowsGUI
\* ('/sdcard/')
C12_GoUpAtRootIsNoOp ==
    [][ /\ ( /\ current_path = SdcardRoot
             /\ last_op' # last_op
             /\ last_op'.op = "go_up" ) =>
                /\ current_path' = current_path
                /\ ~last_op'.refreshed
                /\ last_op'.rc = NoListing
                /\ file_list' = file_list
                /\ tree_widget' = tree_widget
        /\ ( /\ g_current_path = ANDROID_ROOT
             /\ g_last_op' # g_last_op
             /\ g_last_op'.op = "go_up" ) =>
                /\ g_current_path' = g_current_path
                /\ ~g_last_op'.refreshed
                /\ g_tree' = g_tree
                /\ g_path_label' = g_path_label ]_vars

\* go_up has run at the root in both programs, with a device and entries listed
C12_Witness ==
    /\ current_path = SdcardRoot
    /\ last_op = [NoOp EXCEPT !.op = "go_up"]
    /\ device_id # NoDevice
    /\ file_list # << >>
    /\ g_current_path = ANDROID_ROOT
    /\ g_last_op = [g_NoOp EXCEPT !.op = "go_up"]
    /\ g_tree # << >>

\* p is path or lies below it
AtOrBelow(p, path) ==
    /\ Len(p) >= Len(path)
    /\ SubSeq(p, 1, Len(path)) = path
    /\ Len(p) > Len(path) => (EndsWithSep(path) \/ p[Len(path) + 1] = "/")

\* C13: whatever entries are opened, tree items double-clicked and go_up steps taken,
\* current_path is the root or lies below it, in both programs
C13_PathWithinRoot ==
    /\ AtOrBelow(current_path, SdcardRoot)
    /\ AtOrBelow(g_current_path, ANDROID_ROOT)

\* both programs went two levels down and one level up again
C13_Witness ==
    /\ last_op.op = "go_up" /\ last_op.refreshed /\ Depth(current_path) = 1
    /\ g_last_op.op = "go_up" /\ g_last_op.refreshed /\ CountSep(g_current_path) = 3

\* C14: in ADBWindowsGUI, whatever open_item and go_up steps are taken, current_path
\* starts with a separator, ends with one, and holds no two separators in a row
C14_PathWellFormed ==
    /\ g_current_path # << >>
    /\ Head(g_current_path) = "/"
    /\ EndsWithSep(g_current_path)
    /\ \A i \in 1..(Len(g_current_path) - 1) :
          ~(g_current_path[i] = "/" /\ g_current_path[i + 1] = "/")

\* ADBWindowsGUI opened a directory below the root and went up to the root again
C14_Witness ==
    /\ g_last_op.op = "go_up" /\ g_last_op.refreshed
    /\ g_current_path = ANDROID_ROOT

----------------------------------------------------------------------------
(* Properties of an AdbFileExplorer session without transfers, checked under
   SpecSession *)

\* C16: from a check_device that found adb_path missing until a check that finds it
\* again, no handler runs a listing, mkdir or rm command; status_label holds 'ADB not
\* found' exactly between such checks, and last_op the commands of the last handler
C16_NoCommandWhileAdbMissing ==
    status_label = AdbNotFound =>
        /\ last_op.rc \in {NoListing, -1}
        /\ last_op.paths = << >>

----------------------------------------------------------------------------
(* Properties of deleting in both programs, checked under SpecFiles *)

\* the paths of the selected entries of delete_items
SelectedPaths(path, names) == { Join(path, names[i]) : i \in 1..Len(names) }

\* C19: 'rm -rf' runs only after the answer Yes to the confirmation of a non-empty
\* selection, and only on current_path joined with the name of a selected entry;
\* with no selection or the answer No nothing runs, nothing is listed again and the
\* lists stay, in AdbFileExplorer and in ADBWindowsGUI
C19_DeleteOnlyConfirmedSelection ==
    [][ /\ (last_op' # last_op /\ last_op'.op = "delete_items") =>
              /\ last_op'.paths # << >> =>
                    /\ ui.pc = "delete_ask"
                    /\ last_op'.reply = "yes"
                    /\ ui.files # << >>
                    /\ \A i \in 1..Len(last_op'.paths) :
                          last_op'.paths[i] \in SelectedPaths(current_path, ui.files)
              /\ (ui.pc # "delete_ask" \/ last_op'.reply # "yes") =>
                    /\ last_op'.paths = << >>
                    /\ ~last_op'.refreshed
                    /\ last_op'.rc = NoListing
                    /\ file_list' = file_list
                    /\ tree_widget' = tree_widget
        /\ (g_last_op' # g_last_op /\ g_last_op'.op = "delete") =>
              /\ g_last_op'.paths # << >> =>
                    /\ g_last_op'.reply = "yes"
                    /\ g_last_op'.selected # << >>
                    /\ g_last_op'.paths = << g_last_op'.selected >>
                    /\ \E i \in 1..Len(g_tree) :
                          g_last_op'.selected = g_current_path \o g_tree[i]
              /\ g_last_op'.reply # "yes" =>
                    /\ g_last_op'.paths = << >>
                    /\ ~g_last_op'.refreshed
                    /\ g_tree' = g_tree
                    /\ g_path_label' = g_path_label ]_vars

\* AdbFileExplorer has removed both entries of /sdcard/b after a Yes, and
\* ADBWindowsGUI an entry of /sdcard/b/
C19_Witness ==
    /\ last_op.op = "delete_items" /\ last_op.reply = "yes"
    /\ Len(last_op.paths) = 2
    /\ Depth(current_path) = 1
    /\ g_last_op.op = "delete" /\ g_last_op.reply = "yes"
    /\ g_last_op.paths # << >>
    /\ g_current_path # ANDROID_ROOT

----------------------------------------------------------------------------
(* Properties of refresh_file_list, checked under SpecNav *)

\* a line without its trailing separator
WithoutSep(line) == IF EndsWithSep(line) THEN SubSeq(line, 1, Len(line) - 1) ELSE line

\* one entry per non-empty line of the output: a directory exactly if the line ends
\* with the separator, named by the line without it
LineEntries(out) ==
    LET lines == NonEmpty(Split(out, "\n"))
    IN  [ i \in 1..Len(lines) |->
            [name |-> WithoutSep(lines[i]), is_dir |-> EndsWithSep(lines[i])] ]

\* C17: after a listing that exited 0, file_list holds one entry per non-empty line
\* of its output, a directory exactly if the line ends with '/', named by the line
\* without the trailing separator
C17_EntriesFollowLines ==
    (last_op.refreshed /\ last_op.rc = 0) => file_list = LineEntries(last_op.out)

----------------------------------------------------------------------------
(* Properties of the overwrite question of push_files and pull_files, checked under
   SpecTransfer *)

\* the GUI thread is at the given position of the loop of push_files or pull_files
At(position) == ui.pc \in {"push_" \o position, "pull_" \o position}

\* the loop goes on with the files after the current one, or the handler returns
Continues ==
    \/ Len(ui.files) > 1 /\ At("loop")' /\ ui'.files = Tail(ui.files)
    \/ Len(ui.files) = 1 /\ ui' = Idle

\* C20: a transfer to a destination that exists is not started when it is found to
\* exist nor while the overwrite question is open; after the answer No none is
\* started for that file and the loop continues with the remaining files; after Yes
\* exactly one is started, and the loop continues as well
C20_OverwriteOnlyAfterYes ==
    [][ /\ (At("loop") /\ At("ask")') => Len(workers') = Len(workers)
        /\ At("ask") =>
              /\ Len(workers') = Len(workers)
              /\ At("ask")' \/ At("yes")' \/ At("no")'
              /\ ui'.files = ui.files
        /\ (At("no") /\ ui' # ui) =>
              /\ Len(workers') = Len(workers)
              /\ Continues
        /\ (At("yes") /\ ui' # ui) =>
              /\ Len(workers') = Len(workers) + 1
              /\ workers'[Len(workers')].started = FALSE
              /\ transfer_worker' = Len(workers')
              /\ Continues ]_vars

\* the first of two files to push was skipped by the answer No: no transfer was
\* started for it, the loop went on, and the question for the second file has been
\* answered Yes
C20_Witness ==
    /\ ui.pc = "push_yes"
    /\ ui.files = << LocalName(2) >>
    /\ workers = << >>
    /\ push_button

----------------------------------------------------------------------------
(* Properties of the progress shown by AdbFileExplorer, checked under SpecTransfer *)

\* the GUI thread handles the signal at the head of the queue in this step
Handles(sig) ==
    /\ queue # << >>
    /\ Head(queue).sig = sig
    /\ Len(queue') = Len(queue) - 1

\* C18: when the finished signal of a transfer is handled the bar shows 100 after a
\* success and 0 after a failure, whatever it showed before, the message of the
\* outcome is shown, and no signal of that transfer is left to be applied afterwards
C18_FinalProgress ==
    [][ Handles("finished") =>
            /\ progress_bar' = IF Head(queue).success THEN 100 ELSE 0
            /\ progress_label' = Head(queue).text
            /\ \A i \in DOMAIN queue' : queue'[i].w # Head(queue).w ]_vars

\* the only transfer of the session has ended in success, all its signals have been
\* handled and the bar shows 100
C18_Witness ==
    /\ Len(workers) = 1
    /\ workers[1].pc = "exited"
    /\ workers[1].returncode = 0
    /\ queue = << >>
    /\ progress_bar = 100
    /\ progress_label.kind = "Transfer completed successfully."

----------------------------------------------------------------------------
(* Properties of the device of a transfer, checked under SpecCapture *)

\* C21: a TransferWorker is constructed with the device_id the session has at that
\* moment and keeps it, and the 'stat' command and the push or pull command it starts
\* both address that device, whatever check_device makes of the device_id of the
\* session meanwhile
C21_TransferKeepsItsDevice ==
    [][ \A w \in DOMAIN workers' :
            /\ workers'[w].device_id =
                  IF w \in DOMAIN workers THEN workers[w].device_id ELSE device_id
            /\ workers'[w].stat_device \in {NoDevice, workers'[w].device_id}
            /\ workers'[w].transfer_device \in {NoDevice, workers'[w].device_id}
            /\ workers'[w].started => workers'[w].transfer_device = workers'[w].device_id
      ]_vars

\* a pull started for device A1 has run 'stat' and 'adb pull' against A1 after
\* check_device had selected another device or none for the session
C21_Witness ==
    \E w \in DOMAIN workers :
        /\ workers[w].operation = "pull"
        /\ workers[w].device_id = << "A", "1" >>
        /\ workers[w].stat_device = << "A", "1" >>
        /\ workers[w].transfer_device = << "A", "1" >>
        /\ workers[w].pc = "read"
        /\ workers[w].nread = 0
        /\ device_id # << "A", "1" >>
        /\ last_op.op = "check_device"

====
